---- MODULE Spec2Model ----
(***************************************************************************)
(* Model of components/dts6012m_uart/sensor.py: the configuration schema,  *)
(* the UART parameter validator and the code-generation coroutine of the   *)
(* DTS6012M distance sensor component, together with the sensor driver     *)
(* (frame parser, measurement converter, polling wrapper) that the module  *)
(* declares as DTS6012MUartSensor.                                         *)
(***************************************************************************)
EXTENDS Integers, Sequences, FiniteSets, TLC

(***************************************************************************)
(* Bounds of the model.                                                    *)
(***************************************************************************)
MaxApply == 2
MaxStream == 8
MaxByte == 2
RxCapacity == 2
MaxPolls == 2

(***************************************************************************)
(* Configuration keys (esphome.const / esphome.components.uart).           *)
(***************************************************************************)
CONF_ID == "id"
CONF_UART == "uart"
CONF_BAUD_RATE == "baud_rate"
CONF_DATA_BITS == "data_bits"
CONF_PARITY == "parity"
CONF_STOP_BITS == "stop_bits"
CONF_UPDATE_INTERVAL == "update_interval"

(***************************************************************************)
(* Python dictionaries are functions with a finite set of string keys.     *)
(* d[k] on a missing key raises KeyError; d.get(k, default) does not.      *)
(***************************************************************************)
HasKey(d, k) == k \in DOMAIN d

Get(d, k, default) == IF HasKey(d, k) THEN d[k] ELSE default

SetDefault(d, k, default) ==
  IF HasKey(d, k) THEN d ELSE [x \in DOMAIN d \cup {k} |-> IF x = k THEN default ELSE d[x]]

(***************************************************************************)
(* The configurations the model enumerates.  Every UART field is either    *)
(* omitted or takes the required value or a deviating one; parity also     *)
(* takes the lower-case spelling of the required value.                    *)
(***************************************************************************)
BaudRates == {9600, 115200}
DataBits == {8, 7}
Parities == {"NONE", "EVEN", "none"}
StopBits == {1, 2}

UpdateIntervals == {[n |-> 60, unit |-> "s"], [n |-> 30, unit |-> "s"],
                    [n |-> 500, unit |-> "ms"], [n |-> -1, unit |-> "s"]}

Opt(S) == {{}} \cup {{x} : x \in S}

Only(o) == CHOOSE x \in o : TRUE

MkUart(bo, do, po, so) ==
  LET ks == (IF bo # {} THEN {CONF_BAUD_RATE} ELSE {}) \cup
            (IF do # {} THEN {CONF_DATA_BITS} ELSE {}) \cup
            (IF po # {} THEN {CONF_PARITY} ELSE {}) \cup
            (IF so # {} THEN {CONF_STOP_BITS} ELSE {})
  IN [k \in ks |-> CASE k = CONF_BAUD_RATE -> Only(bo)
                     [] k = CONF_DATA_BITS -> Only(do)
                     [] k = CONF_PARITY -> Only(po)
                     [] k = CONF_STOP_BITS -> Only(so)]

UartConfigs ==
  {MkUart(bo, do, po, so) : bo \in Opt(BaudRates), do \in Opt(DataBits),
                            po \in Opt(Parities), so \in Opt(StopBits)}

MkConfig(uo, io) ==
  LET ks == {CONF_ID} \cup (IF uo # {} THEN {CONF_UART} ELSE {}) \cup
            (IF io # {} THEN {CONF_UPDATE_INTERVAL} ELSE {})
  IN [k \in ks |-> CASE k = CONF_ID -> "distance_sensor"
                     [] k = CONF_UART -> Only(uo)
                     [] k = CONF_UPDATE_INTERVAL -> Only(io)]

Configs == {MkConfig(uo, io) : uo \in Opt(UartConfigs), io \in Opt(UpdateIntervals)}

(***************************************************************************)
(* validate_uart_config.  The result records how the call ended ("return", *)
(* "Invalid" for cv.Invalid, "KeyError" for a subscript on a missing key), *)
(* the message of the exception, the returned object (ret, empty when the  *)
(* call raised), the state of the config dictionary after the call (the    *)
(* function only reads it) and the checks that were evaluated, in order.   *)
(***************************************************************************)
Return(config, evaluated) ==
  [kind |-> "return", msg |-> "", ret |-> {config}, after |-> config, evaluated |-> evaluated]

Raise(kind, msg, config, evaluated) ==
  [kind |-> kind, msg |-> msg, ret |-> {}, after |-> config, evaluated |-> evaluated]

MSG_BAUD == "DTS6012M sensor requires 9600 baud rate"
MSG_DATA == "DTS6012M sensor requires 8 data bits"
MSG_PARITY == "DTS6012M sensor requires no parity"
MSG_STOP == "DTS6012M sensor requires 1 stop bit"

(* Variant: the stop-bits check is missing. *)
validate_uart_config_NoStopCheck(config) ==
  IF ~HasKey(config, CONF_UART)
  THEN Raise("KeyError", CONF_UART, config, <<>>)
  ELSE
    LET uart_config == config[CONF_UART] IN
    IF ~HasKey(uart_config, CONF_BAUD_RATE)
    THEN Raise("KeyError", CONF_BAUD_RATE, config, <<>>)
    ELSE IF uart_config[CONF_BAUD_RATE] # 9600
    THEN Raise("Invalid", MSG_BAUD, config, <<CONF_BAUD_RATE>>)
    ELSE IF Get(uart_config, CONF_DATA_BITS, 8) # 8
    THEN Raise("Invalid", MSG_DATA, config, <<CONF_BAUD_RATE, CONF_DATA_BITS>>)
    ELSE IF Get(uart_config, CONF_PARITY, "NONE") # "NONE"
    THEN Raise("Invalid", MSG_PARITY, config,
               <<CONF_BAUD_RATE, CONF_DATA_BITS, CONF_PARITY>>)
    ELSE Return(config, <<CONF_BAUD_RATE, CONF_DATA_BITS, CONF_PARITY>>)

(* Variant: parity is checked before the data bits. *)
validate_uart_config_ParityFirst(config) ==
  IF ~HasKey(config, CONF_UART)
  THEN Raise("KeyError", CONF_UART, config, <<>>)
  ELSE
    LET uart_config == config[CONF_UART] IN
    IF ~HasKey(uart_config, CONF_BAUD_RATE)
    THEN Raise("KeyError", CONF_BAUD_RATE, config, <<>>)
    ELSE IF uart_config[CONF_BAUD_RATE] # 9600
    THEN Raise("Invalid", MSG_BAUD, config, <<CONF_BAUD_RATE>>)
    ELSE IF Get(uart_config, CONF_PARITY, "NONE") # "NONE"
    THEN Raise("Invalid", MSG_PARITY, config, <<CONF_BAUD_RATE, CONF_PARITY>>)
    ELSE IF Get(uart_config, CONF_DATA_BITS, 8) # 8
    THEN Raise("Invalid", MSG_DATA, config,
               <<CONF_BAUD_RATE, CONF_PARITY, CONF_DATA_BITS>>)
    ELSE IF Get(uart_config, CONF_STOP_BITS, 1) # 1
    THEN Raise("Invalid", MSG_STOP, config,
               <<CONF_BAUD_RATE, CONF_PARITY, CONF_DATA_BITS, CONF_STOP_BITS>>)
    ELSE Return(config, <<CONF_BAUD_RATE, CONF_PARITY, CONF_DATA_BITS, CONF_STOP_BITS>>)

(* Variant: the defaults are written into the dictionary (setdefault in    *)
(* place of get).                                                          *)
validate_uart_config_SetDefault(config) ==
  IF ~HasKey(config, CONF_UART)
  THEN Raise("KeyError", CONF_UART, config, <<>>)
  ELSE
    LET uart_config == config[CONF_UART]
        u1 == SetDefault(uart_config, CONF_DATA_BITS, 8)
        u2 == SetDefault(u1, CONF_PARITY, "NONE")
        u3 == SetDefault(u2, CONF_STOP_BITS, 1)
        With(u) == [config EXCEPT ![CONF_UART] = u]
    IN
    IF ~HasKey(uart_config, CONF_BAUD_RATE)
    THEN Raise("KeyError", CONF_BAUD_RATE, config, <<>>)
    ELSE IF uart_config[CONF_BAUD_RATE] # 9600
    THEN Raise("Invalid", MSG_BAUD, config, <<CONF_BAUD_RATE>>)
    ELSE IF u1[CONF_DATA_BITS] # 8
    THEN Raise("Invalid", MSG_DATA, With(u1), <<CONF_BAUD_RATE, CONF_DATA_BITS>>)
    ELSE IF u2[CONF_PARITY] # "NONE"
    THEN Raise("Invalid", MSG_PARITY, With(u2),
               <<CONF_BAUD_RATE, CONF_DATA_BITS, CONF_PARITY>>)
    ELSE IF u3[CONF_STOP_BITS] # 1
    THEN Raise("Invalid", MSG_STOP, With(u3),
               <<CONF_BAUD_RATE, CONF_DATA_BITS, CONF_PARITY, CONF_STOP_BITS>>)
    ELSE Return(With(u3), <<CONF_BAUD_RATE, CONF_DATA_BITS, CONF_PARITY, CONF_STOP_BITS>>)

validate_uart_config(config) ==
  IF ~HasKey(config, CONF_UART)
  THEN Raise("KeyError", CONF_UART, config, <<>>)
  ELSE
    LET uart_config == config[CONF_UART] IN
    IF ~HasKey(uart_config, CONF_BAUD_RATE)
    THEN Raise("KeyError", CONF_BAUD_RATE, config, <<>>)
    ELSE IF uart_config[CONF_BAUD_RATE] # 9600
    THEN Raise("Invalid", MSG_BAUD, config, <<CONF_BAUD_RATE>>)
    ELSE IF Get(uart_config, CONF_DATA_BITS, 8) # 8
    THEN Raise("Invalid", MSG_DATA, config, <<CONF_BAUD_RATE, CONF_DATA_BITS>>)
    ELSE IF Get(uart_config, CONF_PARITY, "NONE") # "NONE"
    THEN Raise("Invalid", MSG_PARITY, config,
               <<CONF_BAUD_RATE, CONF_DATA_BITS, CONF_PARITY>>)
    ELSE IF Get(uart_config, CONF_STOP_BITS, 1) # 1
    THEN Raise("Invalid", MSG_STOP, config,
               <<CONF_BAUD_RATE, CONF_DATA_BITS, CONF_PARITY, CONF_STOP_BITS>>)
    ELSE Return(config, <<CONF_BAUD_RATE, CONF_DATA_BITS, CONF_PARITY, CONF_STOP_BITS>>)

NoOutcome == [kind |-> "none", msg |-> "", ret |-> {}, evaluated |-> <<>>]

Outcome(r) == [kind |-> r.kind, msg |-> r.msg, ret |-> r.ret, evaluated |-> r.evaluated]

(***************************************************************************)
(* CONFIG_SCHEMA: the sensor schema extended with the polling-component    *)
(* schema (default update interval "60s"), the UART device schema and the  *)
(* component schema.  Of the library schemas only what this file fixes is  *)
(* modelled: an omitted update_interval takes the default, a given one is  *)
(* checked to be a non-negative time period, and the validated value is    *)
(* the period in milliseconds.  A schema returns a new dictionary.         *)
(***************************************************************************)
(* Variant: the default is given in the wrong unit. *)
DefaultUpdateInterval_Ms == [n |-> 60, unit |-> "ms"]

DefaultUpdateInterval == [n |-> 60, unit |-> "s"]

UnitMs(u) == CASE u = "ms" -> 1 [] u = "s" -> 1000 [] u = "min" -> 60000

TimePeriodMs(t) == t.n * UnitMs(t.unit)

CONFIG_SCHEMA(config) ==
  LET ui == Get(config, CONF_UPDATE_INTERVAL, DefaultUpdateInterval) IN
  IF TimePeriodMs(ui) < 0
  THEN Raise("Invalid", "update_interval", config, <<CONF_UPDATE_INTERVAL>>)
  ELSE LET validated == [k \in DOMAIN config \cup {CONF_UPDATE_INTERVAL} |->
                           IF k = CONF_UPDATE_INTERVAL
                           THEN [n |-> TimePeriodMs(ui), unit |-> "ms"]
                           ELSE config[k]]
       IN [kind |-> "return", msg |-> "", ret |-> {validated}, after |-> config,
           evaluated |-> <<CONF_UPDATE_INTERVAL>>]

(***************************************************************************)
(* FINAL_CONFIG_SCHEMA = cv.All(CONFIG_SCHEMA, validate_uart_config): the  *)
(* validator is applied to what CONFIG_SCHEMA returns; the first exception *)
(* ends the chain.                                                         *)
(***************************************************************************)
FINAL_CONFIG_SCHEMA(config) ==
  LET r1 == CONFIG_SCHEMA(config) IN
  IF r1.kind # "return" THEN r1
  ELSE LET r2 == validate_uart_config(Only(r1.ret)) IN
       [r2 EXCEPT !.after = config, !.evaluated = r1.evaluated \o r2.evaluated]

(***************************************************************************)
(* to_code: four calls in program order.                                   *)
(***************************************************************************)
ToCodeStatements ==
  <<"new_Pvariable", "register_component", "register_sensor", "register_uart_device">>

StatementIndex(f) == CHOOSE i \in 1..Len(ToCodeStatements) : ToCodeStatements[i] = f

(* Variant: register_sensor is skipped. *)
NextStatement_SkipSensor(f) ==
  IF f = "new_Pvariable" THEN "register_component"
  ELSE IF f = "register_component" THEN "register_uart_device"
  ELSE "done"

NextStatement(f) ==
  IF StatementIndex(f) = Len(ToCodeStatements) THEN "done"
  ELSE ToCodeStatements[StatementIndex(f) + 1]

VARIABLES input, config, outcome, first, applies,
          phase, pc, awaiting, log, var, registered, sensor_interval,
          fed, feeding, sent, noiseHeader, noiseRun, rx,
          state, buf, consumed, emitted, driver, fresh,
          polls, pollResult, emittedAtPoll

validateVars == <<outcome, first, applies>>

buildVars == <<phase, pc, awaiting, log, var, registered, sensor_interval>>

driverVars == <<fed, feeding, sent, noiseHeader, noiseRun, rx, state, buf, consumed, emitted,
                driver, fresh, polls, pollResult, emittedAtPoll>>

vars == <<input, config, validateVars, buildVars, driverVars>>

NotFeeding == [payload |-> {}, rest |-> <<>>]

DriverIdle ==
  /\ fed = 0
  /\ feeding = NotFeeding
  /\ sent = <<>>
  /\ noiseHeader = FALSE
  /\ noiseRun = <<>>
  /\ rx = <<>>
  /\ state = "SEEKING_HEADER"
  /\ buf = <<>>
  /\ consumed = 0
  /\ emitted = <<>>
  /\ driver = [lastReading |-> {}, lastUpdate |-> {}]
  /\ fresh = FALSE
  /\ polls = 0
  /\ pollResult = {}
  /\ emittedAtPoll = 0

BuildIdle ==
  /\ phase = "none"
  /\ pc = "idle"
  /\ awaiting = FALSE
  /\ log = <<>>
  /\ var = {}
  /\ registered = {}
  /\ sensor_interval = {}

ValidateIdle ==
  /\ outcome = NoOutcome
  /\ first = NoOutcome
  /\ applies = 0

(***************************************************************************)
(* validate_uart_config applied to arbitrary configurations.               *)
(***************************************************************************)
InitValidate ==
  /\ config \in Configs
  /\ input = config
  /\ ValidateIdle
  /\ BuildIdle
  /\ DriverIdle

ApplyValidate ==
  /\ applies < MaxApply
  /\ LET r == validate_uart_config(config) IN
       /\ outcome' = Outcome(r)
       /\ config' = r.after
       /\ first' = IF applies = 0 THEN Outcome(r) ELSE first
  /\ applies' = applies + 1
  /\ UNCHANGED <<driverVars, input, buildVars>>

NextValidate == ApplyValidate

SpecValidate == InitValidate /\ [][NextValidate]_vars

(***************************************************************************)
(* The build pipeline: the host validates the platform configuration with  *)
(* the module attribute CONFIG_SCHEMA and, when that succeeds, runs        *)
(* to_code on the validated configuration.                                 *)
(***************************************************************************)
InitBuild ==
  /\ config \in Configs
  /\ input = config
  /\ ValidateIdle
  /\ phase = "loaded"
  /\ pc = "idle"
  /\ awaiting = FALSE
  /\ log = <<>>
  /\ var = {}
  /\ registered = {}
  /\ sensor_interval = {}
  /\ DriverIdle

HostValidate ==
  /\ phase = "loaded"
  /\ LET r == CONFIG_SCHEMA(config) IN
       /\ outcome' = Outcome(r)
       /\ IF r.kind = "return"
          THEN config' = Only(r.ret) /\ phase' = "validated"
          ELSE config' = r.after /\ phase' = "rejected"
  /\ UNCHANGED <<driverVars, input, first, applies, pc, awaiting, log, var, registered, sensor_interval>>

ToCodeStart ==
  /\ phase = "validated"
  /\ phase' = "codegen"
  /\ pc' = ToCodeStatements[1]
  /\ UNCHANGED <<driverVars, input, config, validateVars, awaiting, log, var, registered, sensor_interval>>

CallStart(f) ==
  /\ phase = "codegen"
  /\ pc = f
  /\ ~awaiting
  /\ awaiting' = TRUE
  /\ log' = Append(log, <<"call", f>>)
  /\ UNCHANGED <<driverVars, input, config, validateVars, phase, pc, var, registered, sensor_interval>>

CallReturn(f) ==
  /\ phase = "codegen"
  /\ pc = f
  /\ awaiting
  /\ awaiting' = FALSE
  /\ log' = Append(log, <<"return", f>>)
  /\ pc' = NextStatement(f)
  /\ var' = IF f = "new_Pvariable" THEN {config[CONF_ID]} ELSE var
  /\ registered' = IF f = "new_Pvariable" THEN registered ELSE registered \cup {f}
  /\ sensor_interval' =
       IF f = "register_component" /\ HasKey(config, CONF_UPDATE_INTERVAL)
       THEN {TimePeriodMs(config[CONF_UPDATE_INTERVAL])}
       ELSE sensor_interval
  /\ UNCHANGED <<driverVars, input, config, validateVars, phase>>

CallRaise(f) ==
  /\ phase = "codegen"
  /\ pc = f
  /\ awaiting
  /\ awaiting' = FALSE
  /\ log' = Append(log, <<"raise", f>>)
  /\ pc' = "raised"
  /\ UNCHANGED <<driverVars, input, config, validateVars, phase, var, registered, sensor_interval>>

Callees == {ToCodeStatements[i] : i \in 1..Len(ToCodeStatements)}

NextBuild ==
  \/ HostValidate
  \/ ToCodeStart
  \/ \E f \in Callees : CallStart(f)
  \/ \E f \in Callees : CallReturn(f)
  \/ \E f \in Callees : CallRaise(f)

SpecBuild == InitBuild /\ [][NextBuild]_vars

(***************************************************************************)
(* The driver the module declares as DTS6012MUartSensor (sensor.Sensor,    *)
(* PollingComponent, UARTDevice).  A frame is a header byte, one payload   *)
(* byte (the distance in millimetres) and a checksum byte.                 *)
(***************************************************************************)
Bytes == 0..MaxByte

HEADER == 2

FrameLen == 3

MaxFrameSize == 3

Checksum(p) == (HEADER + p) % (MaxByte + 1)

Encode(p) == <<HEADER, p, Checksum(p)>>

WellFormed(f) == Len(f) = FrameLen /\ f[1] = HEADER /\ f[3] = Checksum(f[2])

(* Measurement converter: millimetres to metres with three decimals. *)
Convert(f, t) ==
  [distanceMeters |-> [whole |-> f[2] \div 1000, milli |-> f[2] % 1000], timestamp |-> t]

DriverConfig == MkConfig({MkUart({9600}, {8}, {"NONE"}, {1})}, {})

InitDriver ==
  /\ config = DriverConfig
  /\ input = config
  /\ ValidateIdle
  /\ BuildIdle
  /\ DriverIdle

(* The byte source: noise bytes between frames, frames byte by byte.  sent *)
(* lists the payloads of the well-formed frames the stream contains, in    *)
(* the order they completed: the frames transmitted and the runs of noise  *)
(* bytes that happen to be a well-formed frame.                            *)
LastBytes(run) == IF Len(run) < FrameLen THEN run ELSE SubSeq(run, 2, Len(run))

FeedNoise(b) ==
  /\ feeding = NotFeeding
  /\ fed < MaxStream
  /\ Len(rx) < RxCapacity
  /\ rx' = Append(rx, b)
  /\ fed' = fed + 1
  /\ noiseHeader' = (noiseHeader \/ b = HEADER)
  /\ LET run == Append(noiseRun, b) IN
       /\ noiseRun' = LastBytes(run)
       /\ sent' = IF WellFormed(run) THEN Append(sent, run[2]) ELSE sent
  /\ UNCHANGED <<input, config, validateVars, buildVars, feeding, state, buf,
                 consumed, emitted, driver, fresh, polls, pollResult, emittedAtPoll>>

BeginFrame(p) ==
  /\ feeding = NotFeeding
  /\ fed + FrameLen <= MaxStream
  /\ Len(rx) < RxCapacity
  /\ rx' = Append(rx, Head(Encode(p)))
  /\ feeding' = [payload |-> {p}, rest |-> Tail(Encode(p))]
  /\ fed' = fed + 1
  /\ noiseRun' = <<>>
  /\ UNCHANGED <<input, config, validateVars, buildVars, sent, noiseHeader, state, buf,
                 consumed, emitted, driver, fresh, polls, pollResult, emittedAtPoll>>

ContinueFrame ==
  /\ feeding # NotFeeding
  /\ Len(rx) < RxCapacity
  /\ rx' = Append(rx, Head(feeding.rest))
  /\ fed' = fed + 1
  /\ IF Len(feeding.rest) = 1
     THEN feeding' = NotFeeding /\ sent' = Append(sent, Only(feeding.payload))
     ELSE feeding' = [feeding EXCEPT !.rest = Tail(@)] /\ sent' = sent
  /\ UNCHANGED <<input, config, validateVars, buildVars, noiseHeader, noiseRun, state, buf,
                 consumed, emitted, driver, fresh, polls, pollResult, emittedAtPoll>>

(* Variant: every byte is taken as the start of a frame. *)
SeekHeader_AnyByte ==
  /\ state = "SEEKING_HEADER"
  /\ rx # <<>>
  /\ rx' = Tail(rx)
  /\ consumed' = consumed + 1
  /\ state' = "ACCUMULATING_PAYLOAD"
  /\ buf' = <<Head(rx)>>
  /\ UNCHANGED <<input, config, validateVars, buildVars, fed, feeding, sent, noiseHeader, noiseRun,
                 emitted, driver, fresh, polls, pollResult, emittedAtPoll>>

SeekHeader ==
  /\ state = "SEEKING_HEADER"
  /\ rx # <<>>
  /\ rx' = Tail(rx)
  /\ consumed' = consumed + 1
  /\ IF Head(rx) = HEADER
     THEN state' = "ACCUMULATING_PAYLOAD" /\ buf' = <<Head(rx)>>
     ELSE UNCHANGED <<state, buf>>
  /\ UNCHANGED <<input, config, validateVars, buildVars, fed, feeding, sent, noiseHeader, noiseRun,
                 emitted, driver, fresh, polls, pollResult, emittedAtPoll>>

Accumulate ==
  /\ state = "ACCUMULATING_PAYLOAD"
  /\ rx # <<>>
  /\ rx' = Tail(rx)
  /\ consumed' = consumed + 1
  /\ LET nb == Append(buf, Head(rx)) IN
       \* frames have a fixed length, so the size bound is never exceeded here
       IF Len(nb) > MaxFrameSize
       THEN state' = "SEEKING_HEADER" /\ buf' = <<>>
       ELSE IF Len(nb) = FrameLen
       THEN state' = "VALIDATING" /\ buf' = nb
       ELSE state' = state /\ buf' = nb
  /\ UNCHANGED <<input, config, validateVars, buildVars, fed, feeding, sent, noiseHeader, noiseRun,
                 emitted, driver, fresh, polls, pollResult, emittedAtPoll>>

Emit ==
  /\ state = "VALIDATING"
  /\ WellFormed(buf)
  /\ LET r == Convert(buf, consumed) IN
       /\ emitted' = Append(emitted, r)
       /\ driver' = [lastReading |-> {r}, lastUpdate |-> {consumed}]
  /\ fresh' = TRUE
  /\ state' = "SEEKING_HEADER"
  /\ buf' = <<>>
  /\ UNCHANGED <<input, config, validateVars, buildVars, fed, feeding, sent, noiseHeader, noiseRun,
                 rx, consumed, polls, pollResult, emittedAtPoll>>

Discard ==
  /\ state = "VALIDATING"
  /\ ~WellFormed(buf)
  /\ state' = "SEEKING_HEADER"
  /\ buf' = <<>>
  /\ UNCHANGED <<input, config, validateVars, buildVars, fed, feeding, sent, noiseHeader, noiseRun,
                 rx, consumed, emitted, driver, fresh, polls, pollResult, emittedAtPoll>>

(* Variant: poll() hands out the last reading without marking it taken. *)
Poll_KeepFresh ==
  /\ polls < MaxPolls
  /\ polls' = polls + 1
  /\ pollResult' = driver.lastReading
  /\ emittedAtPoll' = Len(emitted)
  /\ UNCHANGED <<input, config, validateVars, buildVars, fed, feeding, sent, noiseHeader, noiseRun,
                 rx, state, buf, consumed, emitted, driver, fresh>>

Poll ==
  /\ polls < MaxPolls
  /\ polls' = polls + 1
  /\ pollResult' = IF fresh THEN driver.lastReading ELSE {}
  /\ fresh' = FALSE
  /\ emittedAtPoll' = Len(emitted)
  /\ UNCHANGED <<input, config, validateVars, buildVars, fed, feeding, sent, noiseHeader, noiseRun,
                 rx, state, buf, consumed, emitted, driver>>

NextDriver ==
  \/ \E b \in Bytes : FeedNoise(b)
  \/ \E p \in Bytes : BeginFrame(p)
  \/ ContinueFrame
  \/ SeekHeader
  \/ Accumulate
  \/ Emit
  \/ Discard
  \/ Poll

SpecDriver == InitDriver /\ [][NextDriver]_vars

(***************************************************************************)
(* The sensor's fixed requirements, stated independently of the validator. *)
(***************************************************************************)
FieldOrder == <<CONF_BAUD_RATE, CONF_DATA_BITS, CONF_PARITY, CONF_STOP_BITS>>

FieldOk(u, k) ==
  CASE k = CONF_BAUD_RATE -> k \in DOMAIN u /\ u[k] = 9600
    [] k = CONF_DATA_BITS -> k \in DOMAIN u => u[k] = 8
    [] k = CONF_PARITY -> k \in DOMAIN u => u[k] = "NONE"
    [] k = CONF_STOP_BITS -> k \in DOMAIN u => u[k] = 1

MessageOf(k) ==
  CASE k = CONF_BAUD_RATE -> MSG_BAUD
    [] k = CONF_DATA_BITS -> MSG_DATA
    [] k = CONF_PARITY -> MSG_PARITY
    [] k = CONF_STOP_BITS -> MSG_STOP

HasBaud(c) == CONF_UART \in DOMAIN c /\ CONF_BAUD_RATE \in DOMAIN c[CONF_UART]

Deviating(c) == {i \in 1..4 : ~FieldOk(c[CONF_UART], FieldOrder[i])}

Conforms(c) == HasBaud(c) /\ Deviating(c) = {}

FirstDeviating(c) == CHOOSE i \in Deviating(c) : \A j \in Deviating(c) : i <= j

(* C1: a configuration whose UART section carries a baud rate is accepted  *)
(* (the config is returned) exactly when baud rate = 9600, data bits = 8,  *)
(* parity = "NONE" and stop bits = 1, omitted fields counting as their     *)
(* required values; every other such configuration raises cv.Invalid.      *)
C1_AcceptIffConforming ==
  (applies >= 1 /\ HasBaud(input)) =>
     /\ Conforms(input) => (outcome.kind = "return" /\ outcome.ret = {input})
     /\ ~Conforms(input) => outcome.kind = "Invalid"

C1_Witness ==
  /\ applies >= 1
  /\ HasBaud(input)
  /\ DOMAIN input[CONF_UART] = {CONF_BAUD_RATE, CONF_PARITY}
  /\ outcome.kind = "return"

(* C6: every failure of validate_uart_config is cv.Invalid; the call       *)
(* either returns or raises cv.Invalid, whatever the configuration.        *)
C6_OnlyInvalid == applies >= 1 => outcome.kind \in {"return", "Invalid"}

(* C8: when several fields deviate, the single error raised is the one of  *)
(* the first deviating field in the order baud rate, data bits, parity,    *)
(* stop bits, and no check after the failing one is evaluated.             *)
C8_FirstDeviationReported ==
  (applies >= 1 /\ HasBaud(input) /\ ~Conforms(input)) =>
     LET i == FirstDeviating(input) IN
       /\ outcome.kind = "Invalid"
       /\ outcome.msg = MessageOf(FieldOrder[i])
       /\ outcome.evaluated = SubSeq(FieldOrder, 1, i)
       /\ outcome.msg = MSG_STOP => Deviating(input) = {4}

C8_Witness ==
  /\ applies >= 1
  /\ HasBaud(input)
  /\ {2, 3, 4} \subseteq Deviating(input)
  /\ outcome.msg = MSG_DATA

(* C9: validate_uart_config leaves the configuration as it was, returns    *)
(* the very config it was given, and a second application ends as the      *)
(* first did.                                                              *)
C9_NoEffect ==
  applies >= 1 =>
     /\ config = input
     /\ outcome.kind = "return" => outcome.ret = {input}
     /\ applies >= 2 => outcome = first

C9_Witness ==
  /\ applies >= 2
  /\ HasBaud(input)
  /\ DOMAIN input[CONF_UART] = {CONF_BAUD_RATE}
  /\ outcome.kind = "return"
  /\ config = input

(* C2: a configuration whose UART parameters deviate from 9600/8/NONE/1    *)
(* never reaches to_code; no code-generation step runs for it.             *)
C2_DeviatingNeverReachesToCode ==
  (HasBaud(input) /\ ~Conforms(input)) => (phase # "codegen" /\ log = <<>>)

(* C5: without update_interval in the configuration the generated sensor   *)
(* polls every 60 seconds; a configured update_interval is the one used.   *)
C5_DefaultInterval ==
  "register_component" \in registered =>
     sensor_interval = {IF CONF_UPDATE_INTERVAL \in DOMAIN input
                        THEN TimePeriodMs(input[CONF_UPDATE_INTERVAL])
                        ELSE 60 * 1000}

C5_Witness ==
  /\ CONF_UPDATE_INTERVAL \notin DOMAIN input
  /\ "register_component" \in registered
  /\ sensor_interval = {60000}

(* C7: to_code runs new_Pvariable, register_component, register_sensor and *)
(* register_uart_device in that order, each once, each returning before    *)
(* the next is called, and nothing runs after a call that raised; the      *)
(* variable is created from config[CONF_ID].                               *)
IsPrefix(s, t) == Len(s) <= Len(t) /\ SubSeq(t, 1, Len(s)) = s

CanonicalLog ==
  << <<"call", "new_Pvariable">>, <<"return", "new_Pvariable">>,
     <<"call", "register_component">>, <<"return", "register_component">>,
     <<"call", "register_sensor">>, <<"return", "register_sensor">>,
     <<"call", "register_uart_device">>, <<"return", "register_uart_device">> >>

C7_FixedOrder ==
  /\ \/ IsPrefix(log, CanonicalLog)
     \/ /\ Len(log) >= 2
        /\ IsPrefix(SubSeq(log, 1, Len(log) - 1), CanonicalLog)
        /\ log[Len(log) - 1][1] = "call"
        /\ log[Len(log)] = <<"raise", log[Len(log) - 1][2]>>
  /\ pc = "done" => log = CanonicalLog
  /\ var # {} => var = {input[CONF_ID]}

C7_Witness == pc = "done" /\ log = CanonicalLog /\ Cardinality(registered) = 3
(***************************************************************************)
(* Driver properties.                                                      *)
(***************************************************************************)
Quiescent == rx = <<>> /\ feeding = NotFeeding /\ state # "VALIDATING"

MetersOf(p) == [whole |-> p \div 1000, milli |-> p % 1000]

EmittedDistances == [i \in 1..Len(emitted) |-> emitted[i].distanceMeters]

SentDistances == [i \in 1..Len(sent) |-> MetersOf(sent[i])]

(* C3 as stated: for any stream of N well-formed frames interleaved with   *)
(* arbitrary noise bytes, once the stream is consumed the parser has       *)
(* emitted exactly N Readings, those of the frames in completion order.    *)
C3_ExactlyN == Quiescent => EmittedDistances = SentDistances

(* C3 amended: the same, for streams whose noise bytes never equal the     *)
(* header byte; while such a stream is being consumed the Readings emitted *)
(* are those of the first frames completed, in order.                      *)
C3_ExactlyN_NoHeaderInNoise ==
  ~noiseHeader =>
     /\ IsPrefix(EmittedDistances, SentDistances)
     /\ Quiescent => EmittedDistances = SentDistances

C3_Witness ==
  /\ ~noiseHeader
  /\ Quiescent
  /\ Len(sent) = 2
  /\ sent[1] # sent[2]
  /\ fed > 2 * FrameLen
  /\ EmittedDistances = SentDistances

(* C4: a poll() with no frame validated since the previous poll() (or      *)
(* since the start) returns none.                                          *)
C4_SecondPollNone ==
  [][(polls' = polls + 1 /\ Len(emitted) = emittedAtPoll) => pollResult' = {}]_vars

C4_Witness ==
  /\ polls = 2
  /\ Len(emitted) >= 1
  /\ emittedAtPoll = Len(emitted)
  /\ driver.lastReading # {}
  /\ pollResult = {}
====
